---- MODULE Spec2Model ----
(***************************************************************************)
(* A model of meta::sequence::hmm::hidden_markov_model                     *)
(* (include/meta/sequence/hmm/hmm.h): the fit loop and its stopping        *)
(* policy, one parallel expectation-maximisation iteration, the per        *)
(* sequence forward-backward computation and its expected counts, and      *)
(* construction / persistence.                                             *)
(*                                                                         *)
(* Four specifications share the module:                                   *)
(*   Spec    the fit loop (fit, lines 131-165)                             *)
(*   SpecEM  one call of expectation_maximization with its worker pool     *)
(*   SpecFB  the per-sequence mapping function (forward, backward, gamma,  *)
(*           xi) in exact rational arithmetic                              *)
(*   SpecIO  the three constructors, save, and parameter replacement       *)
(***************************************************************************)
EXTENDS Integers, Sequences, FiniteSets

VARIABLES
    \* ---- fit (Spec) ----
    pc,          \* position inside fit: ready, loop, em, check, done, thrown
    options,     \* training_options: [delta, max_iters]
    iter,        \* uint64_t iter
    old_ll,      \* double old_ll
    ll,          \* double ll of the running iteration
    ret,         \* the value returned by fit
    outcome,     \* none, converged, exhausted, diverged
    obs_dist_,   \* generation of the emission model (number of replacements)
    model_,      \* generation of the markov chain (number of replacements)
    calls,       \* number of fit calls started
    startGen,    \* history: generation held when the running call started
    itersRun,    \* history: iterations started by the running call
    lastLL,      \* history: log-likelihood computed by the latest iteration
    prevLL,      \* history: log-likelihood computed by the one before
    decreased,   \* history: some iteration's logL was below its predecessor's
    \* ---- expectation_maximization (SpecEM) ----
    emPc,        \* map, reduce, swap, done
    pool,        \* number of workers of the thread pool
    todo,        \* sequences not yet handed to a worker
    wpc,         \* per worker: fresh, idle, probs, finished
    wseq,        \* per worker: the sequence being processed (0: none yet)
    wobs,        \* per worker: the emission generation read for that sequence
    acc,         \* per worker: its expected_counts accumulator
    live,        \* workers whose accumulator has not yet been merged away
    seq_id,      \* the progress counter
    reads,       \* history: <<emission generation, chain generation>> pairs read
    \* ---- per-sequence mapping function (SpecFB) ----
    fbPc,        \* start, probs, fwd, bwd, gamma, counted
    seq,         \* the observation sequence
    theta,       \* which parameter set the model holds
    output_probs,
    fwd,
    bwd,
    gamma,
    counts,      \* model_counts: [initial, transition]
    \* ---- construction and persistence (SpecIO) ----
    hmm,         \* the constructed object: [built, obs, chain]
    stream,      \* the bytes of the last save
    saved,       \* history: the parameters held when stream was written
    origin,      \* history: what gave hmm its parameters
    failed       \* the last construction threw hmm_exception

fitVars == <<pc, options, iter, old_ll, ll, ret, outcome, calls, startGen,
             itersRun, lastLL, prevLL, decreased>>
parVars == <<obs_dist_, model_>>
emVars  == <<emPc, pool, todo, wpc, wseq, wobs, acc, live, seq_id, reads>>
fbVars  == <<fbPc, seq, theta, output_probs, fwd, bwd, gamma, counts>>
ioVars  == <<hmm, stream, saved, origin, failed>>
vars    == <<fitVars, parVars, emVars, fbVars, ioVars>>

(***************************************************************************)
(* Bounds                                                                  *)
(***************************************************************************)
\* width of the iteration counter (uint64_t in the program, 2^IterBits here)
IterBits == 2
\* log-likelihoods range over -MaxLL .. 0, and NaN
MaxLL == 2
\* delta ranges over 0 .. MaxDelta
MaxDelta == 2
\* fit calls on one model
MaxCalls == 2

UintMax == 2^IterBits - 1
\* the history counter itersRun stops the model one iteration after a wrap
MaxRuns == UintMax + 2

(***************************************************************************)
(* double: the finite values -MaxLL..0, the sentinel lowest(), and NaN.    *)
(* Comparisons with NaN are false and arithmetic on NaN gives NaN.         *)
(***************************************************************************)
Lowest == 0 - (MaxLL + MaxDelta + 1)
NaN == Lowest - 1
LLValues == ((0 - MaxLL)..0) \cup {NaN}
Deltas == 0..MaxDelta

IsNaN(x) == x = NaN
Gt(a, b) == ~IsNaN(a) /\ ~IsNaN(b) /\ a > b
Lt(a, b) == ~IsNaN(a) /\ ~IsNaN(b) /\ a < b
Sub(a, b) == IF IsNaN(a) \/ IsNaN(b) THEN NaN ELSE a - b

(***************************************************************************)
(* Variables a specification does not use are held at these values.        *)
(***************************************************************************)
FitIdle ==
    /\ pc = "ready" /\ options = [delta |-> 0, max_iters |-> 0]
    /\ iter = 0 /\ old_ll = Lowest /\ ll = 0 /\ ret = 0 /\ outcome = "none"
    /\ calls = 0 /\ itersRun = 0
    /\ lastLL = Lowest /\ prevLL = Lowest /\ decreased = FALSE
EMIdle ==
    /\ emPc = "done" /\ pool = 0 /\ todo = {} /\ wpc = <<>> /\ wseq = <<>>
    /\ wobs = <<>> /\ acc = <<>> /\ live = {} /\ seq_id = 0 /\ reads = {}
FBIdle ==
    /\ fbPc = "counted" /\ seq = <<>> /\ theta = 0 /\ output_probs = <<>>
    /\ fwd = <<>> /\ bwd = <<>> /\ gamma = <<>> /\ counts = <<>>
IOIdle ==
    /\ hmm = <<>> /\ stream = <<>> /\ saved = <<>> /\ origin = "none"
    /\ failed = FALSE

(***************************************************************************)
(* fit                                                                     *)
(***************************************************************************)
\* line 149: if (old_ll > ll)
DivergedFlipped(o, l) == Gt(l, o)
Diverged(o, l) == Gt(o, l)

\* line 155: if (ll - old_ll < options.delta)
ConvergedFlipped(l, o, d) == Gt(Sub(l, o), d)
Converged(l, o, d) == Lt(Sub(l, o), d)

\* fit is entered: double old_ll = lowest(); uint64_t iter = 1
Fit ==
    /\ pc = "ready" /\ calls < MaxCalls
    /\ \E d \in Deltas, m \in 0..UintMax :
         options' = [delta |-> d, max_iters |-> m]
    /\ old_ll' = Lowest /\ iter' = 1 /\ ll' = 0
    /\ calls' = calls + 1 /\ startGen' = obs_dist_
    /\ itersRun' = 0 /\ lastLL' = Lowest /\ prevLL' = Lowest
    /\ decreased' = FALSE /\ outcome' = "none"
    /\ pc' = "loop"
    /\ UNCHANGED <<ret, parVars, emVars, fbVars, ioVars>>

\* line 135, condition true: the body is entered, double ll = 0
EnterBody ==
    /\ pc = "loop" /\ iter <= options.max_iters /\ itersRun < MaxRuns
    /\ ll' = 0 /\ itersRun' = itersRun + 1
    /\ pc' = "em"
    /\ UNCHANGED <<options, iter, old_ll, ret, outcome, calls, startGen, lastLL,
                   prevLL, decreased, parVars, emVars, fbVars, ioVars>>

\* line 135, condition false, then line 164: return old_ll
Exhausted ==
    /\ pc = "loop" /\ ~(iter <= options.max_iters)
    /\ ret' = old_ll /\ outcome' = "exhausted" /\ pc' = "done"
    /\ UNCHANGED <<options, iter, old_ll, ll, calls, startGen, itersRun, lastLL,
                   prevLL, decreased, parVars, emVars, fbVars, ioVars>>

\* line 143: ll = expectation_maximization(...), which replaces obs_dist_ and
\* model_ (lines 304-305) and returns the data log-likelihood (line 307)
RunEM ==
    /\ pc = "em"
    /\ \E v \in LLValues :
         /\ ll' = v
         /\ lastLL' = v
         /\ decreased' = (decreased \/ (itersRun >= 2 /\ Lt(v, lastLL)))
    /\ prevLL' = lastLL
    /\ obs_dist_' = obs_dist_ + 1
    /\ model_' = model_ + 1
    /\ pc' = "check"
    /\ UNCHANGED <<options, iter, old_ll, ret, outcome, calls, startGen,
                   itersRun, emVars, fbVars, ioVars>>

\* lines 149-153: throw std::runtime_error
DivergeRollback ==
    /\ pc = "check" /\ Diverged(old_ll, ll)
    /\ obs_dist_' = obs_dist_ - 1 /\ model_' = model_ - 1
    /\ outcome' = "diverged" /\ pc' = "thrown"
    /\ UNCHANGED <<options, iter, old_ll, ll, ret, calls, startGen, itersRun,
                   lastLL, prevLL, decreased, emVars, fbVars, ioVars>>
Diverge ==
    /\ pc = "check" /\ Diverged(old_ll, ll)
    /\ outcome' = "diverged" /\ pc' = "thrown"
    /\ UNCHANGED <<options, iter, old_ll, ll, ret, calls, startGen, itersRun,
                   lastLL, prevLL, decreased, parVars, emVars, fbVars, ioVars>>

\* lines 155-160: return ll
Converge ==
    /\ pc = "check" /\ ~Diverged(old_ll, ll)
    /\ Converged(ll, old_ll, options.delta)
    /\ ret' = ll /\ outcome' = "converged" /\ pc' = "done"
    /\ UNCHANGED <<options, iter, old_ll, ll, calls, startGen, itersRun, lastLL,
                   prevLL, decreased, parVars, emVars, fbVars, ioVars>>

\* line 162 and the ++iter of line 135, in uint64_t arithmetic
ContinueNoUpdate ==
    /\ pc = "check" /\ ~Diverged(old_ll, ll)
    /\ ~Converged(ll, old_ll, options.delta)
    /\ iter' = (iter + 1) % (UintMax + 1)
    /\ pc' = "loop"
    /\ UNCHANGED <<options, old_ll, ll, ret, outcome, calls, startGen, itersRun,
                   lastLL, prevLL, decreased, parVars, emVars, fbVars, ioVars>>
Continue ==
    /\ pc = "check" /\ ~Diverged(old_ll, ll)
    /\ ~Converged(ll, old_ll, options.delta)
    /\ old_ll' = ll
    /\ iter' = (iter + 1) % (UintMax + 1)
    /\ pc' = "loop"
    /\ UNCHANGED <<options, ll, ret, outcome, calls, startGen, itersRun, lastLL,
                   prevLL, decreased, parVars, emVars, fbVars, ioVars>>

\* fit has returned or thrown; the model is ready for another call
Return ==
    /\ pc \in {"done", "thrown"} /\ calls < MaxCalls
    /\ pc' = "ready"
    /\ UNCHANGED <<options, iter, old_ll, ll, ret, outcome, calls, startGen,
                   itersRun, lastLL, prevLL, decreased, parVars, emVars, fbVars,
                   ioVars>>

Init ==
    /\ FitIdle /\ EMIdle /\ FBIdle /\ IOIdle
    /\ obs_dist_ = 0 /\ model_ = 0 /\ startGen = 0

Next ==
    \/ Fit
    \/ EnterBody
    \/ Exhausted
    \/ RunEM
    \/ Diverge
    \/ Converge
    \/ Continue
    \/ Return

Spec == Init /\ [][Next]_vars

(***************************************************************************)
(* expectation_maximization: one iteration over the training set, mapped   *)
(* over a pool of workers and reduced to one aggregate (lines 201-308).    *)
(***************************************************************************)
\* workers of the thread pool range over 1 .. MaxPool
MaxPool == 3
\* training sequences
NumSeqs == 3
\* precision of the double significand (53 bits in the program)
MantissaBits == 2

Seqs == 1..NumSeqs
\* instances[s].size()
SeqLen(s) == IF s = 1 THEN 4 ELSE 1

\* A double is kept with the real number it stands for: v is the value the
\* machine holds, x the value exact arithmetic would have given.
RECURSIVE Ulp(_)
Ulp(n) == IF n < 2^MantissaBits THEN 1 ELSE 2 * Ulp(n \div 2)
\* round to nearest, ties to even
FlRound(n) ==
    LET u == Ulp(n)
        q == n \div u
        r == n % u
    IN  IF 2 * r < u THEN q * u
        ELSE IF 2 * r > u THEN (q + 1) * u
        ELSE IF q % 2 = 0 THEN q * u ELSE (q + 1) * u
Dbl(n) == [v |-> FlRound(n), x |-> FlRound(n)]
\* double += double
DAdd(a, b) == [v |-> FlRound(a.v + b.v), x |-> a.x + b.x]

\* lines 210-215 and 227: expected_counts{obs_dist, model}: the zero counts of
\* both models and log_likelihood = 0.0.  from records, per sequence, how many
\* times its counts have been added.
ZeroCounts ==
    [obs_counts |-> Dbl(0), model_counts |-> Dbl(0), log_likelihood |-> Dbl(0),
     from |-> [s \in Seqs |-> 0]]

\* lines 217-223: expected_counts::operator+=
PlusEqNoLikelihood(a, b) ==
    [obs_counts |-> DAdd(a.obs_counts, b.obs_counts),
     model_counts |-> DAdd(a.model_counts, b.model_counts),
     log_likelihood |-> a.log_likelihood,
     from |-> [s \in Seqs |-> a.from[s] + b.from[s]]]
PlusEq(a, b) ==
    [obs_counts |-> DAdd(a.obs_counts, b.obs_counts),
     model_counts |-> DAdd(a.model_counts, b.model_counts),
     log_likelihood |-> DAdd(a.log_likelihood, b.log_likelihood),
     from |-> [s \in Seqs |-> a.from[s] + b.from[s]]]

\* The magnitude of the log-likelihood of sequence s under the emission model
\* of generation o and the chain of generation m (lines 290-296): a function
\* of the parameters read and of the sequence.
SeqLogLikelihood(o, m, s) == SeqLen(s) + o + 2 * m

\* lines 256-296: what the mapping function adds to a worker's accumulator
\* for sequence s.  Every gamma(t, .) sums to one, so the emission counts grow
\* by seq.size() (line 284), the initial counts by 1 (line 261) and the
\* transition counts by seq.size() - 1 (line 276).
AddSequence(c, o, m, s) ==
    [obs_counts |-> DAdd(c.obs_counts, Dbl(SeqLen(s))),
     model_counts |-> DAdd(c.model_counts, Dbl(1 + (SeqLen(s) - 1))),
     log_likelihood |-> DAdd(c.log_likelihood, Dbl(SeqLogLikelihood(o, m, s))),
     from |-> [c.from EXCEPT ![s] = @ + 1]]

Workers == 1..pool

\* lines 235-237: a worker's local storage
MakeLocal(w) ==
    /\ emPc = "map" /\ wpc[w] = "fresh"
    /\ acc' = [acc EXCEPT ![w] = ZeroCounts]
    /\ live' = live \cup {w}
    /\ wpc' = [wpc EXCEPT ![w] = "idle"]
    /\ UNCHANGED <<emPc, pool, todo, wseq, wobs, seq_id, reads, fitVars,
                   parVars, fbVars, ioVars>>

\* lines 238-245: the mapping function is called with the next sequence of
\* the worker (a worker walks its share of instances front to back):
\* progress(seq_id++) under the mutex, then output_probabilities(seq), which
\* reads obs_dist_
TakeSequence(w, s) ==
    /\ wpc[w] = "idle" /\ s \in todo /\ s > wseq[w]
    /\ todo' = todo \ {s}
    /\ seq_id' = seq_id + 1
    /\ wseq' = [wseq EXCEPT ![w] = s]
    /\ wobs' = [wobs EXCEPT ![w] = obs_dist_]
    /\ wpc' = [wpc EXCEPT ![w] = "probs"]
    /\ UNCHANGED <<emPc, pool, acc, live, reads, fitVars, parVars, fbVars,
                   ioVars>>

\* lines 248-296: forward and backward read model_; the expected counts and
\* the log-likelihood of the sequence are added to the worker's accumulator
Accumulate(w) ==
    /\ wpc[w] = "probs"
    /\ acc' = [acc EXCEPT ![w] = AddSequence(@, wobs[w], model_, wseq[w])]
    /\ reads' = reads \cup {<<wobs[w], model_>>}
    /\ wpc' = [wpc EXCEPT ![w] = "idle"]
    /\ UNCHANGED <<emPc, pool, todo, wseq, wobs, live, seq_id, fitVars,
                   parVars, fbVars, ioVars>>

\* parallel::reduction joins its workers before it combines their storage
JoinWorkers ==
    /\ emPc = "map" /\ todo = {}
    /\ \A w \in Workers : wpc[w] = "idle"
    /\ emPc' = "reduce"
    /\ UNCHANGED <<pool, todo, wpc, wseq, wobs, acc, live, seq_id, reads,
                   fitVars, parVars, fbVars, ioVars>>

\* lines 299-301: result += temp, for two accumulators in any order
Merge(a, b) ==
    /\ emPc = "reduce" /\ a \in live /\ b \in live /\ a # b
    /\ acc' = [acc EXCEPT ![a] = PlusEq(acc[a], acc[b])]
    /\ live' = live \ {b}
    /\ UNCHANGED <<emPc, pool, todo, wpc, wseq, wobs, seq_id, reads, fitVars,
                   parVars, fbVars, ioVars>>

\* line 304: obs_dist_ = ObsDist{std::move(counts.obs_counts)}
ReplaceObsDistEarly ==
    /\ emPc \in {"map", "reduce"}
    /\ obs_dist_' = obs_dist_ + 1
    /\ emPc' = "swap"
    /\ UNCHANGED <<model_, pool, todo, wpc, wseq, wobs, acc, live, seq_id,
                   reads, fitVars, fbVars, ioVars>>
ReplaceObsDist ==
    /\ emPc = "reduce" /\ Cardinality(live) = 1
    /\ obs_dist_' = obs_dist_ + 1
    /\ emPc' = "swap"
    /\ UNCHANGED <<model_, pool, todo, wpc, wseq, wobs, acc, live, seq_id,
                   reads, fitVars, fbVars, ioVars>>

\* lines 305-307: model_ = markov_model{std::move(counts.model_counts)};
\* return counts.log_likelihood
ReplaceModel ==
    /\ emPc = "swap"
    /\ model_' = model_ + 1
    /\ emPc' = "done"
    /\ UNCHANGED <<obs_dist_, pool, todo, wpc, wseq, wobs, acc, live, seq_id,
                   reads, fitVars, fbVars, ioVars>>

\* the aggregate returned by parallel::reduction
Aggregate == acc[CHOOSE w \in live : TRUE]

\* what one worker computes when it is given the sequences 1 .. n in order
RECURSIVE SerialAggregate(_, _)
SerialAggregate(g, n) ==
    IF n = 0 THEN ZeroCounts
    ELSE AddSequence(SerialAggregate(g, n - 1), g, g, n)

InitEM ==
    /\ FitIdle /\ FBIdle /\ IOIdle
    /\ \E g \in 0..1 : obs_dist_ = g /\ model_ = g /\ startGen = g
    /\ pool \in 1..MaxPool
    /\ emPc = "map" /\ todo = Seqs /\ seq_id = 0 /\ reads = {} /\ live = {}
    /\ wpc = [w \in 1..pool |-> "fresh"]
    /\ wseq = [w \in 1..pool |-> 0]
    /\ wobs = [w \in 1..pool |-> 0]
    /\ acc = [w \in 1..pool |-> ZeroCounts]

NextEM ==
    \/ \E w \in Workers : MakeLocal(w)
    \/ \E w \in Workers, s \in Seqs : TakeSequence(w, s)
    \/ \E w \in Workers : Accumulate(w)
    \/ JoinWorkers
    \/ \E a \in Workers, b \in Workers : Merge(a, b)
    \/ ReplaceObsDist
    \/ ReplaceModel

SpecEM == InitEM /\ [][NextEM]_vars

(***************************************************************************)
(* The mapping function of expectation_maximization on one sequence        *)
(* (lines 238-298) with output_probabilities, forward, backward and        *)
(* posterior_state_membership (lines 310-416), in exact rational           *)
(* arithmetic.  States, times and symbols count from 0 as in the program.  *)
(***************************************************************************)
\* hidden states
NumStates == 2
\* observation symbols
NumSymbols == 2
\* longest training sequence
MaxSeqLen == 3
\* parameter sets a model may hold
NumThetas == 2

States == 0..(NumStates - 1)
Symbols == 0..(NumSymbols - 1)
Sequences == UNION {[0..(n - 1) -> Symbols] : n \in 1..MaxSeqLen}
Size(sq) == Cardinality(DOMAIN sq)

\* non-negative rationals <<numerator, denominator>> in lowest terms
RECURSIVE GCD(_, _)
GCD(a, b) == IF b = 0 THEN a ELSE GCD(b, a % b)
Rat(n, d) == LET g == GCD(n, d) IN <<n \div g, d \div g>>
RZero == <<0, 1>>
ROne == <<1, 1>>
RAdd(a, b) ==
    LET g == GCD(a[2], b[2])
    IN  Rat(a[1] * (b[2] \div g) + b[1] * (a[2] \div g), (a[2] \div g) * b[2])
RMul(a, b) ==
    LET g == GCD(a[1], b[2])
        h == GCD(b[1], a[2])
    IN  <<(a[1] \div g) * (b[1] \div h), (a[2] \div h) * (b[2] \div g)>>
RDiv(a, b) == RMul(a, <<b[2], b[1]>>)
\* the sum of f[k] over k = lo .. hi, added in ascending order from zero
RECURSIVE RSum(_, _, _)
RSum(f, lo, hi) == IF hi < lo THEN RZero ELSE RAdd(RSum(f, lo, hi - 1), f[hi])

\* The parameters a model may hold.  Set 1 is the uniform chain of the second
\* constructor with an emission model that tells the states apart; in the
\* others every distribution favours one outcome, a different one in each
\* set.  All probabilities are positive.
RECURSIVE PowerOfTwoAbove(_, _)
PowerOfTwoAbove(n, w) == IF w > n THEN w ELSE PowerOfTwoAbove(n, 2 * w)
\* the weight of the favoured one of n outcomes (the others weigh 1)
Favoured(n) == PowerOfTwoAbove(n, 1) - (n - 1)
InitWeight(p, s) ==
    IF p = 1 THEN 1 ELSE IF s = p % NumStates THEN Favoured(NumStates) ELSE 1
TransWeight(p, i, j) ==
    IF p = 1 THEN 1
    ELSE IF j = (i + p) % NumStates THEN Favoured(NumStates) ELSE 1
EmitWeight(p, o, s) ==
    IF p = 1 THEN (IF o = s THEN 4 ELSE 1)
    ELSE IF o = (s + p) % NumSymbols THEN Favoured(NumSymbols) ELSE 1

RECURSIVE NatSum(_, _, _)
NatSum(f, lo, hi) == IF hi < lo THEN 0 ELSE NatSum(f, lo, hi - 1) + f[hi]

\* line 177: model_.initial_probability(s)
init_prob(p, s) ==
    Rat(InitWeight(p, s),
        NatSum([k \in States |-> InitWeight(p, k)], 0, NumStates - 1))
\* line 172: model_.transition_probability(from, to)
trans_prob(p, i, j) ==
    Rat(TransWeight(p, i, j),
        NatSum([k \in States |-> TransWeight(p, i, k)], 0, NumStates - 1))
\* line 319: obs_dist_.probability(seq[t], s_i)
obs_prob(p, o, s) ==
    Rat(EmitWeight(p, o, s),
        NatSum([k \in Symbols |-> EmitWeight(p, k, s)], 0, NumSymbols - 1))

\* lines 310-323
output_probabilities(p, sq) ==
    [t \in DOMAIN sq |-> [s \in States |-> obs_prob(p, sq[t], s)]]

\* forward_trellis::normalize: every value of the column is divided by the
\* sum of the column, which is recorded as the scale factor of the column
Normalize(col) ==
    LET total == RSum(col, 0, NumStates - 1)
    IN  [prob |-> [s \in States |-> RDiv(col[s], total)], normalizer |-> total]

\* lines 345-379: column t of the forward trellis
RECURSIVE ForwardColumn(_, _, _)
ForwardColumn(p, op, t) ==
    IF t = 0
    THEN Normalize([s \in States |-> RMul(init_prob(p, s), op[0][s])])
    ELSE LET before == ForwardColumn(p, op, t - 1).prob
         IN  Normalize([i \in States |->
                 RMul(RSum([j \in States |->
                               RMul(before[j], trans_prob(p, j, i))],
                           0, NumStates - 1),
                      op[t][i])])
forward(p, sq, op) ==
    LET cols == [t \in DOMAIN sq |-> ForwardColumn(p, op, t)]
    IN  [probability |-> [t \in DOMAIN sq |-> cols[t].prob],
         normalizer |-> [t \in DOMAIN sq |-> cols[t].normalizer]]

\* lines 381-416: column t of the backward trellis
RECURSIVE BackwardColumn(_, _, _, _, _)
BackwardColumn(p, n, f, op, t) ==
    IF t = n - 1
    THEN [i \in States |-> ROne]
    ELSE LET after == BackwardColumn(p, n, f, op, t + 1)
         IN  [i \in States |->
                 RMul(f.normalizer[t + 1],
                      RSum([j \in States |->
                               RMul(RMul(after[j], trans_prob(p, i, j)),
                                    op[t + 1][j])],
                           0, NumStates - 1))]
backward(p, sq, f, op) ==
    [t \in DOMAIN sq |-> BackwardColumn(p, Size(sq), f, op, t)]

\* lines 325-343
posterior_state_membership(f, b) ==
    [t \in DOMAIN b |->
        LET raw == [i \in States |-> RMul(f.probability[t][i], b[t][i])]
            norm == RSum(raw, 0, NumStates - 1)
        IN  [i \in States |-> RDiv(raw[i], norm)]]

\* lines 270-274: xi_tij
XiTijWithoutNextBackward(p, op, f, b, g, t, i, j) ==
    RDiv(RMul(RMul(RMul(g[t][i], trans_prob(p, i, j)), op[t + 1][j]),
              f.normalizer[t + 1]),
         b[t][i])
XiTij(p, op, f, b, g, t, i, j) ==
    RDiv(RMul(RMul(RMul(RMul(g[t][i], trans_prob(p, i, j)), op[t + 1][j]),
                   f.normalizer[t + 1]),
              b[t + 1][j]),
         b[t][i])

\* lines 256-296: the counts one sequence adds to fresh expected counts.
\* likelihood is the product of the scale factors, of which the program
\* adds the negated logarithms (line 295).
RECURSIVE RProduct(_, _, _)
RProduct(f, lo, hi) ==
    IF hi < lo THEN ROne ELSE RMul(RProduct(f, lo, hi - 1), f[hi])
SequenceCounts(p, sq, op, f, b, g) ==
    [initial |-> [i \in States |-> g[0][i]],
     transition |-> [i \in States |-> [j \in States |->
         RSum([t \in 0..(Size(sq) - 2) |-> XiTij(p, op, f, b, g, t, i, j)],
              0, Size(sq) - 2)]],
     obs |-> [i \in States |-> [o \in Symbols |->
         RSum([t \in DOMAIN sq |-> IF sq[t] = o THEN g[t][i] ELSE RZero],
              0, Size(sq) - 1)]],
     likelihood |-> RProduct(f.normalizer, 0, Size(sq) - 1)]

\* line 245
CacheOutputProbabilities ==
    /\ fbPc = "start"
    /\ output_probs' = output_probabilities(theta, seq)
    /\ fbPc' = "probs"
    /\ UNCHANGED <<seq, theta, fwd, bwd, gamma, counts, fitVars, parVars,
                   emVars, ioVars>>
\* line 248
RunForward ==
    /\ fbPc = "probs"
    /\ fwd' = forward(theta, seq, output_probs)
    /\ fbPc' = "fwd"
    /\ UNCHANGED <<seq, theta, output_probs, bwd, gamma, counts, fitVars,
                   parVars, emVars, ioVars>>
\* line 249
RunBackward ==
    /\ fbPc = "fwd"
    /\ bwd' = backward(theta, seq, fwd, output_probs)
    /\ fbPc' = "bwd"
    /\ UNCHANGED <<seq, theta, output_probs, fwd, gamma, counts, fitVars,
                   parVars, emVars, ioVars>>
\* line 253
ComputePosterior ==
    /\ fbPc = "bwd"
    /\ gamma' = posterior_state_membership(fwd, bwd)
    /\ fbPc' = "gamma"
    /\ UNCHANGED <<seq, theta, output_probs, fwd, bwd, counts, fitVars,
                   parVars, emVars, ioVars>>
\* lines 256-296
AddExpectedCounts ==
    /\ fbPc = "gamma"
    /\ counts' = SequenceCounts(theta, seq, output_probs, fwd, bwd, gamma)
    /\ fbPc' = "counted"
    /\ UNCHANGED <<seq, theta, output_probs, fwd, bwd, gamma, fitVars, parVars,
                   emVars, ioVars>>

InitFB ==
    /\ FitIdle /\ EMIdle /\ IOIdle
    /\ obs_dist_ = 0 /\ model_ = 0 /\ startGen = 0
    /\ seq \in Sequences
    /\ theta \in 1..NumThetas
    /\ fbPc = "start"
    /\ output_probs = <<>> /\ fwd = <<>> /\ bwd = <<>> /\ gamma = <<>>
    /\ counts = <<>>

NextFB ==
    \/ CacheOutputProbabilities
    \/ RunForward
    \/ RunBackward
    \/ ComputePosterior
    \/ AddExpectedCounts

SpecFB == InitFB /\ [][NextFB]_vars

(***************************************************************************)
(* Construction, persistence and parameter replacement (lines 80-124,      *)
(* 193-198, 303-305).  An emission model is [K, e] and a chain is [K, a]:  *)
(* the number of hidden states it reports and its parameters.              *)
(***************************************************************************)
\* parameter values a component may be initialised with
NumSeeds == 2

Seeds == 0..(NumSeeds - 1)
StateCounts == 1..NumStates
ObsWidth(k) == k * NumSymbols
ChainWidth(k) == k + k * k
\* an emission model of k states, as its constructor initialises it
ObsDistOf(k, sd) ==
    [K |-> k, e |-> [n \in 1..ObsWidth(k) |-> 1 + ((n + sd) % 3)]]
ObsDists == {ObsDistOf(k, sd) : k \in StateCounts, sd \in Seeds}
\* markov_model{num_states, rng, trans_prior}
RandomChain(k, sd) ==
    [K |-> k, a |-> [n \in 1..ChainWidth(k) |-> 1 + ((2 * n + sd) % 3)]]
\* markov_model{num_states, trans_prior}
UniformChain(k) == [K |-> k, a |-> [n \in 1..ChainWidth(k) |-> 1]]
Chains == {RandomChain(k, sd) : k \in StateCounts, sd \in Seeds}
              \cup {UniformChain(k) : k \in StateCounts}
NoObsDist == [K |-> 0, e |-> <<>>]
NoChain == [K |-> 0, a |-> <<>>]
NoModel == [built |-> FALSE, obs |-> NoObsDist, chain |-> NoChain,
            trained |-> FALSE]

\* ObsDist::save and markov_model::save: the state count, then the parameters
SaveObsDist(o) == <<o.K>> \o o.e
SaveChain(c) == <<c.K>> \o c.a
\* ObsDist{is} and markov_model{is}: read the state count, then as many
\* parameters as it calls for; the rest of the stream is left unread
Drop(is, n) == SubSeq(is, n + 1, Len(is))
ReadObsDist(is) ==
    IF Len(is) >= 1 /\ is[1] >= 1 /\ Len(is) >= 1 + ObsWidth(is[1])
    THEN [ok |-> TRUE,
          value |-> [K |-> is[1], e |-> SubSeq(is, 2, 1 + ObsWidth(is[1]))],
          rest |-> Drop(is, 1 + ObsWidth(is[1]))]
    ELSE [ok |-> FALSE, value |-> NoObsDist, rest |-> <<>>]
ReadChain(is) ==
    IF Len(is) >= 1 /\ is[1] >= 1 /\ Len(is) >= 1 + ChainWidth(is[1])
    THEN [ok |-> TRUE,
          value |-> [K |-> is[1], a |-> SubSeq(is, 2, 1 + ChainWidth(is[1]))],
          rest |-> Drop(is, 1 + ChainWidth(is[1]))]
    ELSE [ok |-> FALSE, value |-> NoChain, rest |-> <<>>]

\* lines 193-198: obs_dist_.save(os); model_.save(os)
SaveModel(h) == SaveObsDist(h.obs) \o SaveChain(h.chain)

\* lines 118-124: obs_dist_{is}, model_{is}, members initialised in the order
\* of their declaration (lines 418-419); nothing is checked
LoadModelChainFirst(is) ==
    LET c == ReadChain(is)
        o == ReadObsDist(c.rest)
    IN  IF c.ok /\ o.ok
        THEN [ok |-> TRUE, obs |-> o.value, chain |-> c.value]
        ELSE [ok |-> FALSE, obs |-> NoObsDist, chain |-> NoChain]
LoadModel(is) ==
    LET o == ReadObsDist(is)
        c == ReadChain(o.rest)
    IN  IF o.ok /\ c.ok
        THEN [ok |-> TRUE, obs |-> o.value, chain |-> c.value]
        ELSE [ok |-> FALSE, obs |-> NoObsDist, chain |-> NoChain]

\* the streams a caller may hand to the stream constructor: any emission
\* model's bytes followed by any chain's bytes
InputStreams == {SaveObsDist(o) \o SaveChain(c) : o \in ObsDists, c \in Chains}

\* lines 80-89: obs_dist_{std::move(obs_dist)}, model_{num_states, rng,
\* trans_prior}, then the state counts are compared
ConstructRandom ==
    /\ \E num_states \in StateCounts, obs_dist \in ObsDists, sd \in Seeds :
         IF obs_dist.K # num_states
         THEN /\ hmm' = NoModel
              /\ failed' = TRUE
              /\ origin' = "none"
         ELSE /\ hmm' = [built |-> TRUE, obs |-> obs_dist,
                         chain |-> RandomChain(num_states, sd),
                         trained |-> FALSE]
              /\ failed' = FALSE
              /\ origin' = "random"
    /\ UNCHANGED <<stream, saved, fitVars, parVars, emVars, fbVars>>

\* lines 106-113: obs_dist_{std::move(obs_dist)}, model_{num_states,
\* trans_prior}, then the state counts are compared
ConstructUniform ==
    /\ \E num_states \in StateCounts, obs_dist \in ObsDists :
         IF obs_dist.K # num_states
         THEN /\ hmm' = NoModel
              /\ failed' = TRUE
              /\ origin' = "none"
         ELSE /\ hmm' = [built |-> TRUE, obs |-> obs_dist,
                         chain |-> UniformChain(num_states),
                         trained |-> FALSE]
              /\ failed' = FALSE
              /\ origin' = "uniform"
    /\ UNCHANGED <<stream, saved, fitVars, parVars, emVars, fbVars>>

\* lines 118-124
ConstructFromStream ==
    \E is \in InputStreams \cup {stream} :
        LET m == LoadModel(is)
        IN  /\ IF m.ok
               THEN /\ hmm' = [built |-> TRUE, obs |-> m.obs,
                               chain |-> m.chain, trained |-> FALSE]
                    /\ failed' = FALSE
                    /\ origin' = IF is = stream THEN "reload" ELSE "stream"
               ELSE /\ hmm' = NoModel
                    /\ failed' = TRUE
                    /\ origin' = "none"
            /\ UNCHANGED <<stream, saved, fitVars, parVars, emVars, fbVars>>

\* lines 303-305: both members are rebuilt from expected counts that were
\* shaped by the members they replace (lines 210-212); fit is defined only on
\* a model whose members agree on the state count (lines 313-319 index the
\* emission model with the chain's states)
ReplaceParameters ==
    /\ hmm.built /\ hmm.obs.K = hmm.chain.K
    /\ \E sd \in Seeds, sc \in Seeds :
         hmm' = [hmm EXCEPT !.obs = ObsDistOf(hmm.obs.K, sd),
                            !.chain = RandomChain(hmm.chain.K, sc),
                            !.trained = TRUE]
    /\ origin' = "fit"
    /\ UNCHANGED <<stream, saved, failed, fitVars, parVars, emVars, fbVars>>

\* lines 193-198
Save ==
    /\ hmm.built
    /\ stream' = SaveModel(hmm)
    /\ saved' = hmm
    /\ UNCHANGED <<hmm, origin, failed, fitVars, parVars, emVars, fbVars>>

InitIO ==
    /\ FitIdle /\ EMIdle /\ FBIdle
    /\ obs_dist_ = 0 /\ model_ = 0 /\ startGen = 0
    /\ hmm = NoModel /\ stream = <<>> /\ saved = NoModel
    /\ origin = "none" /\ failed = FALSE

NextIO ==
    \/ ConstructRandom
    \/ ConstructUniform
    \/ ConstructFromStream
    \/ ReplaceParameters
    \/ Save

SpecIO == InitIO /\ [][NextIO]_vars

(***************************************************************************)
(* Claims about fit, checked under Spec                                    *)
(***************************************************************************)
Abs(x) == IF x < 0 THEN 0 - x ELSE x
BothNumbers == ~IsNaN(lastLL) /\ ~IsNaN(prevLL)

\* C1 (as stated): at every iteration i >= 2, whenever
\* |logL_i - logL_{i-1}| < delta, fit returns logL_i at iteration i.
C1_AbsDifferenceConverges ==
    [][(/\ pc = "check" /\ itersRun >= 2 /\ BothNumbers
        /\ Abs(lastLL - prevLL) < options.delta)
       => (pc' = "done" /\ ret' = lastLL /\ itersRun' = itersRun)]_vars

\* C1 (amended): at every iteration i >= 2, whenever logL_i >= logL_{i-1} and
\* logL_i - logL_{i-1} < delta, fit returns logL_i at iteration i and the call
\* runs no further iteration.
C1_NonNegativeDifferenceConverges ==
    /\ [][(/\ pc = "check" /\ itersRun >= 2 /\ BothNumbers
           /\ lastLL >= prevLL /\ lastLL - prevLL < options.delta)
          => (/\ pc' = "done" /\ outcome' = "converged"
              /\ ret' = lastLL /\ itersRun' = itersRun)]_vars
    /\ [][pc = "done" => (pc' = "ready" /\ itersRun' = itersRun)]_vars

C1_Witness ==
    /\ pc = "done" /\ outcome = "converged" /\ itersRun >= 2
    /\ BothNumbers /\ lastLL >= prevLL /\ lastLL - prevLL < options.delta

\* C2: whenever logL_i < logL_{i-1} the call ends at iteration i by throwing,
\* with no further iteration and no return value, and every call that
\* returns has seen no decrease between consecutive iterations.
C2_DecreaseThrows ==
    /\ [](pc = "done" => ~decreased)
    /\ [][(pc = "check" /\ itersRun >= 2 /\ Lt(lastLL, prevLL))
          => (/\ pc' = "thrown" /\ outcome' = "diverged"
              /\ itersRun' = itersRun /\ ret' = ret)]_vars
    /\ [][pc = "thrown" => (pc' = "ready" /\ itersRun' = itersRun)]_vars

C2_Witness ==
    /\ pc = "thrown" /\ outcome = "diverged" /\ decreased
    /\ itersRun >= 2 /\ Lt(lastLL, prevLL)

\* C3: for every delta and every max_iters the 64-bit counter can hold, the
\* default maximum included, fit never runs more than max_iters iterations.
C3_IterationsWithinBudget ==
    pc # "ready" => itersRun <= options.max_iters

C10_ReplacedBeforeCompared ==
    /\ pc \in {"loop", "check", "done", "thrown"} =>
           /\ obs_dist_ = startGen + itersRun
           /\ model_ = startGen + itersRun
    /\ pc = "thrown" => (itersRun >= 1 /\ obs_dist_ > startGen)

C10_Witness ==
    /\ pc = "thrown" /\ itersRun >= 2 /\ startGen > 0
    /\ obs_dist_ = startGen + itersRun

(***************************************************************************)
(* Claims about one EM iteration, checked under SpecEM                     *)
(***************************************************************************)
Held(c) == <<c.obs_counts.v, c.model_counts.v, c.log_likelihood.v>>
Exact(c) == <<c.obs_counts.x, c.model_counts.x, c.log_likelihood.x>>

RECURSIVE TimesCounted(_, _)
TimesCounted(W, s) ==
    IF W = {} THEN 0
    ELSE LET w == CHOOSE u \in W : TRUE
         IN  acc[w].from[s] + TimesCounted(W \ {w}, s)

\* C6 (as stated): the merged aggregate (emission counts, chain counts,
\* log-likelihood total) is the same value for every worker count, assignment
\* of sequences to workers, interleaving and merge order.
C6_SameAggregateForEverySchedule ==
    emPc = "done" => Held(Aggregate) = Held(SerialAggregate(startGen, NumSeqs))

\* C6 (amended): for every worker count, assignment, interleaving and merge
\* order, every training sequence is at every moment either waiting, being
\* processed by one worker, or counted exactly once in exactly one unmerged
\* accumulator; the merged aggregate holds every sequence exactly once and is
\* the sum of the same per-sequence counts, so that it is the same up to the
\* rounding of the double additions, whose order follows the schedule.
C6_EverySequenceCountedOnce ==
    /\ \A s \in Seqs :
         (IF s \in todo THEN 1 ELSE 0)
         + Cardinality({w \in Workers : wpc[w] = "probs" /\ wseq[w] = s})
         + TimesCounted(live, s) = 1
    /\ emPc = "done" =>
         /\ Cardinality(live) = 1
         /\ Aggregate.from = [s \in Seqs |-> 1]
         /\ Exact(Aggregate) = Exact(SerialAggregate(startGen, NumSeqs))

C6_Witness ==
    /\ emPc = "done" /\ pool >= 2
    /\ \E w \in Workers \ live : \E s \in Seqs : acc[w].from[s] = 1
    /\ Aggregate.from = [s \in Seqs |-> 1]

\* C7: the chain and the emission model are written only when no worker is
\* processing a sequence and no merge is pending, every worker reads the
\* parameters the iteration started with for all of its sequences, and no
\* worker reads a new emission model together with an old chain.
C7_ParametersReadOnlyDuringIteration ==
    /\ \A r \in reads : r = <<startGen, startGen>>
    /\ \A w \in Workers : wpc[w] = "probs" => wobs[w] = startGen
    /\ (obs_dist_ # startGen \/ model_ # startGen) =>
         /\ emPc \in {"swap", "done"}
         /\ todo = {}
         /\ \A w \in Workers : wpc[w] = "idle"
         /\ Cardinality(live) = 1

C7_Witness ==
    /\ emPc = "done" /\ pool >= 2 /\ seq_id = NumSeqs
    /\ reads = {<<startGen, startGen>>}
    /\ obs_dist_ = startGen + 1 /\ model_ = startGen + 1

(***************************************************************************)
(* Claims about the expected counts of one sequence, checked under SpecFB  *)
(***************************************************************************)
\* the amount the claim states for xi(t, i, j)
XiAsStated(t, i, j) ==
    RDiv(RMul(RMul(RMul(gamma[t][i], trans_prob(theta, i, j)),
                   output_probs[t + 1][j]),
              fwd.normalizer[t + 1]),
         bwd[t][i])
\* the same amount times the backward value g(t+1, j)
XiWithNextBackward(t, i, j) == RMul(XiAsStated(t, i, j), bwd[t + 1][j])

\* C9 (as stated): the (i,j) transition count of a sequence of length T is
\* the sum over t in [0, T-2] of
\* gamma(t,i) * trans(i,j) * b(t+1,j) * c_{t+1} / g(t,i).
C9_XiWithoutNextBackward ==
    fbPc = "counted" =>
        \A i \in States, j \in States :
            counts.transition[i][j]
              = RSum([t \in 0..(Size(seq) - 2) |-> XiAsStated(t, i, j)],
                     0, Size(seq) - 2)

\* C9 (amended): the (i,j) transition count of a sequence of length T is the
\* sum over t in [0, T-2] of
\* gamma(t,i) * trans(i,j) * b(t+1,j) * c_{t+1} * g(t+1,j) / g(t,i); nothing
\* is added for t = T-1, a sequence of length 1 adds no transition counts, and
\* the amounts added for (t, i, .) sum to gamma(t,i).
C9_XiWithNextBackward ==
    fbPc = "counted" =>
        /\ \A i \in States, j \in States :
             counts.transition[i][j]
               = RSum([t \in 0..(Size(seq) - 2) |->
                          XiWithNextBackward(t, i, j)],
                      0, Size(seq) - 2)
        /\ \A i \in States :
             RSum(counts.transition[i], 0, NumStates - 1)
               = RSum([t \in 0..(Size(seq) - 2) |-> gamma[t][i]],
                      0, Size(seq) - 2)
        /\ Size(seq) = 1 =>
             \A i \in States, j \in States : counts.transition[i][j] = RZero

C9_Witness ==
    /\ fbPc = "counted" /\ Size(seq) >= 3
    /\ \E i \in States, j \in States :
         /\ bwd[1][j] # ROne
         /\ counts.transition[i][j] # RZero

(***************************************************************************)
(* Claims about construction and persistence, checked under SpecIO         *)
(***************************************************************************)
\* C5: in every reachable state of a hidden_markov_model, whichever of the
\* three constructors created it and after any number of fit calls, the
\* emission model and the chain report the same number of hidden states; a
\* construction in which they differ fails instead of yielding a model.
C5_SameStateCount ==
    hmm.built => hmm.obs.K = hmm.chain.K

\* C8: save writes the emission model's bytes first and the chain's second,
\* the stream constructor reads them in that order, and for every model
\* state, trained or not, loading the bytes save produced gives a model with
\* identical parameters.
C8_SaveLoadRoundTrip ==
    /\ hmm.built =>
         LET m == LoadModel(SaveModel(hmm))
         IN  m.ok /\ m.obs = hmm.obs /\ m.chain = hmm.chain
    /\ saved.built =>
         /\ stream = SaveObsDist(saved.obs) \o SaveChain(saved.chain)
         /\ ReadObsDist(stream).value = saved.obs
    /\ origin = "reload" =>
         hmm.built /\ hmm.obs = saved.obs /\ hmm.chain = saved.chain

C8_Witness ==
    /\ origin = "reload" /\ hmm.built /\ saved.trained
    /\ hmm.obs = saved.obs /\ hmm.chain = saved.chain
    /\ hmm.obs.K = NumStates

====
